---- MODULE Spec2Model ----
(***************************************************************************)
(* A model of deepinfra-client-rs: the client handle (client.rs), the chat *)
(* completion operation (chat_completition.rs) and the audio transcription *)
(* operation (audio_transcription.rs).                                     *)
(*                                                                         *)
(* JSON values are tagged records:                                         *)
(*   [t |-> "null"], [t |-> "bool", b |-> ..], [t |-> "num", n |-> ..],    *)
(*   [t |-> "str", s |-> ..], [t |-> "arr", a |-> <<..>>],                 *)
(*   [t |-> "obj", o |-> <function from key strings to JSON values>].      *)
(* A key is present in an object iff it is in DOMAIN of its o field.       *)
(* A body that is not JSON at all is [t |-> "notjson"].                    *)
(* Option<T> is a sequence: <<>> is None and <<v>> is Some(v).             *)
(***************************************************************************)
EXTENDS Integers, Sequences, FiniteSets, TLC

VARIABLES handle, token, newResult, fs, calls, sent

vars == <<handle, token, newResult, fs, calls, sent>>

(***************************************************************************)
(* Bounds of the model.                                                    *)
(***************************************************************************)
MaxCalls == 2
MaxDetail == 2
MaxGran == 2
MaxMsgs == 2
MaxTokenLen == 2

(***************************************************************************)
(* Generic helpers.                                                        *)
(***************************************************************************)
None == <<>>
Some(v) == <<v>>
IsSome(o) == Len(o) = 1

Range(s) == {s[i] : i \in 1..Len(s)}

SeqsUpTo(S, n) == UNION {[1..k -> S] : k \in 0..n}

JNull == [t |-> "null"]
JBool(b) == [t |-> "bool", b |-> b]
JNum(n) == [t |-> "num", n |-> n]
JStr(s) == [t |-> "str", s |-> s]
JArr(a) == [t |-> "arr", a |-> a]
JObj(o) == [t |-> "obj", o |-> o]
NotJson == [t |-> "notjson"]

IsStr(j) == j.t = "str"
HasKey(o, k) == k \in DOMAIN o

\* [String]::join(sep)
RECURSIVE Join(_, _)
Join(parts, sep) ==
    IF Len(parts) = 0 THEN ""
    ELSE IF Len(parts) = 1 THEN parts[1]
    ELSE parts[1] \o sep \o Join(Tail(parts), sep)

(***************************************************************************)
(* serde: what a derived struct accepts.  A struct is read from a JSON     *)
(* object (unknown keys ignored) or, through visit_seq, from a JSON array  *)
(* holding exactly one element per field, in declaration order.            *)
(* AsFields gives the fields found, as an object.                          *)
(***************************************************************************)
NoFields == [ok |-> FALSE]

AsFields(j, names) ==
    IF j.t = "obj" THEN [ok |-> TRUE, o |-> j.o]
    ELSE IF j.t = "arr" /\ Len(j.a) = Len(names)
         THEN [ok |-> TRUE,
               o |-> [k \in Range(names) |->
                        j.a[CHOOSE i \in 1..Len(names) : names[i] = k]]]
         ELSE NoFields

\* An untagged struct variant has no visit_seq: it is read from an object only.
AsMapFields(j) ==
    IF j.t = "obj" THEN [ok |-> TRUE, o |-> j.o] ELSE NoFields

\* A required String field.
StrField(f, k) == f.ok /\ HasKey(f.o, k) /\ IsStr(f.o[k])

(***************************************************************************)
(* audio_transcription.rs: the response shapes.                            *)
(***************************************************************************)
DecodeFail == [ok |-> FALSE]

\* struct AudioTranscriptionResponse { text: String }
DecodeAudioTranscriptionResponse(j) ==
    LET f == AsFields(j, <<"text">>) IN
    IF StrField(f, "text") THEN [ok |-> TRUE, text |-> f.o.text.s] ELSE DecodeFail

\* Vec<String>
IsStrList(j) == j.t = "arr" /\ \A i \in 1..Len(j.a) : IsStr(j.a[i])

StrList(j) == [i \in 1..Len(j.a) |-> j.a[i].s]

\* struct ErrorDetail { loc: Vec<String>, msg: String, type: String }
ErrorDetailOk(j) ==
    LET f == AsFields(j, <<"loc", "msg", "type">>) IN
    /\ f.ok
    /\ HasKey(f.o, "loc") /\ IsStrList(f.o.loc)
    /\ StrField(f, "msg")
    /\ StrField(f, "type")

ErrorDetail(j) ==
    LET f == AsFields(j, <<"loc", "msg", "type">>) IN
    [loc |-> StrList(f.o.loc), msg |-> f.o.msg.s, error_type |-> f.o["type"].s]

\* ErrorResponse::Simple { detail: String }
SimpleOk(j) == StrField(AsMapFields(j), "detail")

\* ErrorResponse::Detailed { detail: Vec<ErrorDetail> }
DetailedOk(j) ==
    LET f == AsMapFields(j) IN
    /\ f.ok
    /\ HasKey(f.o, "detail")
    /\ f.o.detail.t = "arr"
    /\ \A i \in 1..Len(f.o.detail.a) : ErrorDetailOk(f.o.detail.a[i])

\* #[serde(untagged)] enum ErrorResponse: Simple is tried before Detailed.
DecodeErrorResponse(j) ==
    IF SimpleOk(j) THEN [ok |-> TRUE, variant |-> "Simple", detail |-> j.o.detail.s]
    ELSE IF DetailedOk(j)
         THEN [ok |-> TRUE, variant |-> "Detailed",
               detail |-> [i \in 1..Len(j.o.detail.a) |-> ErrorDetail(j.o.detail.a[i])]]
         ELSE DecodeFail

\* #[serde(untagged)] enum AudioTranscriptionApiResponse: the transcription is
\* tried before the error shapes; a body matching no variant is a decode error.
DecodeAudioTranscriptionApiResponse(j) ==
    IF j.t = "notjson" THEN DecodeFail
    ELSE LET r == DecodeAudioTranscriptionResponse(j) IN
         IF r.ok THEN [ok |-> TRUE, variant |-> "TranscriptionResponse", text |-> r.text]
         ELSE LET e == DecodeErrorResponse(j) IN
              IF e.ok THEN [ok |-> TRUE, variant |-> "ErrorResponse", error |-> e]
              ELSE DecodeFail

\* format!("{}: {}", d.loc.join("."), d.msg)
RenderDetail(d) == Join(d.loc, ".") \o ": " \o d.msg

\* The entries joined with "; ".
RenderDetailsSemicolon(detail) ==
    Join([i \in 1..Len(detail) |-> RenderDetail(detail[i])], "; ")

\* detail.iter().map(..).collect::<Vec<String>>().join(", ")
RenderDetails(detail) ==
    Join([i \in 1..Len(detail) |-> RenderDetail(detail[i])], ", ")

\* The match on the decoded response, audio_transcription's last expression.
AudioOutcome(decoded) ==
    IF decoded.variant = "TranscriptionResponse"
    THEN [tag |-> "Ok", val |-> decoded.text]
    ELSE IF decoded.error.variant = "Simple"
         THEN [tag |-> "ErrorResponse", val |-> decoded.error.detail]
         ELSE [tag |-> "ErrorResponse", val |-> RenderDetails(decoded.error.detail)]

\* send().await?.json().await? and the match: what a response gives the caller.
\* The HTTP status is not looked at.
AudioResult(resp) ==
    IF resp.kind = "error" THEN [tag |-> "ReqwestError", val |-> "send"]
    ELSE LET d == DecodeAudioTranscriptionApiResponse(resp.body) IN
         IF d.ok THEN AudioOutcome(d) ELSE [tag |-> "ReqwestError", val |-> "decode"]

(***************************************************************************)
(* client.rs: the handle.  A token is a sequence of byte values.           *)
(***************************************************************************)
\* "Bearer " as bytes.
BearerPrefix == <<66, 101, 97, 114, 101, 114, 32>>

\* The token with no scheme in front.
FormatBare(t) == t

\* format!("Bearer {token}")
FormatBearer(t) == BearerPrefix \o t

\* http::HeaderValue::from_str accepts a byte b iff b >= 32 && b != 127 || b == '\t'.
IsValidHeaderByte(b) == (b >= 32 /\ b # 127) \/ b = 9

HeaderValueFromStr(v) == \A i \in 1..Len(v) : IsValidHeaderByte(v[i])

\* concat!(env!("CARGO_PKG_NAME"), "/", env!("CARGO_PKG_VERSION"))
APP_USER_AGENT == "deepinfra-client-rs/" \o "CARGO_PKG_VERSION"

NoHandle == [built |-> FALSE]

\* Client::builder().default_headers(headers).user_agent(APP_USER_AGENT)
BuildClient(bearer) ==
    [built |-> TRUE, headers |-> [Authorization |-> bearer], user_agent |-> APP_USER_AGENT]

\* DeepinfraClient::new(token).  buildOk is the environment's part: whether
\* reqwest can build its client (TLS backend, resolver).
NewOutcome(t, buildOk) ==
    IF ~HeaderValueFromStr(FormatBearer(t)) THEN "InvalidHeaderValue"
    ELSE IF ~buildOk THEN "ReqwestError"
    ELSE "Ok"

New(t, buildOk) ==
    /\ ~handle.built
    /\ token' = t
    /\ newResult' = NewOutcome(t, buildOk)
    /\ handle' = IF NewOutcome(t, buildOk) = "Ok" THEN BuildClient(FormatBearer(t))
                 ELSE NoHandle
    /\ UNCHANGED <<fs, calls, sent>>

(***************************************************************************)
(* What a request on the wire is, and the call slots.                      *)
(***************************************************************************)
AUDIO_TRANSCRIPTION_API_URL == "https://api.deepinfra.com/v1/openai/audio/transcriptions"
CHAT_COMPLETIONS_API_URL == "https://api.deepinfra.com/v1/openai/chat/completions"

CallIds == 1..MaxCalls

Idle == [pc |-> "idle"]

\* self.client.post(url): the client's default headers and user agent go on
\* every request built from it.
Post(h, url, body) ==
    [url |-> url, headers |-> h.headers, user_agent |-> h.user_agent, body |-> body]

\* A send that is repeated.
SendTwice(log, request) == Append(Append(log, request), request)

\* .send(): one request goes out.
Send(log, request) == Append(log, request)

(***************************************************************************)
(* audio_transcription.rs: the request and the multipart form.             *)
(***************************************************************************)
TextPart(name, value) == [name |-> name, kind |-> "text", value |-> value]

\* Path::file_name of the paths of the model.
BaseName(p) ==
    CASE p = "audio/a.wav" -> "a.wav"
      [] p = "audio/b.mp3" -> "b.mp3"
      [] OTHER -> p

\* Form::file("file", path): the part carries the path's base name and the
\* file's bytes.
FilePart(p) ==
    [name |-> "file", kind |-> "file", file_name |-> BaseName(p),
     data |-> [from |-> "path", path |-> p]]

\* Part::bytes(buffer).file_name(file_name)
BytesPart(buffer, file_name) ==
    [name |-> "file", kind |-> "file", file_name |-> file_name,
     data |-> [from |-> "bytes", buffer |-> buffer]]

\* f32::to_string for the temperatures of the model, given in tenths.
F32ToString(tenths) ==
    CASE tenths = 0 -> "0"
      [] tenths = 10 -> "1"
      [] OTHER -> "0." \o ToString(tenths)

\* Form::new().text("model", ..).text("response_format", ..)
FormBase(req) ==
    <<TextPart("model", req.model), TextPart("response_format", req.response_format)>>

\* if let Some(v) = field { form = form.text(name, v) }
OptText(name, o) == IF IsSome(o) THEN <<TextPart(name, o[1])>> ELSE <<>>

\* The granularities taken from the back of the list.
GranularityPartsReversed(o) ==
    IF IsSome(o)
    THEN [i \in 1..Len(o[1]) |->
            TextPart("timestamp_granularities[]", o[1][Len(o[1]) + 1 - i])]
    ELSE <<>>

\* for granularity in timestamp_granularities { form.text("timestamp_granularities[]", ..) }
GranularityParts(o) ==
    IF IsSome(o)
    THEN [i \in 1..Len(o[1]) |-> TextPart("timestamp_granularities[]", o[1][i])]
    ELSE <<>>

\* The optional fields, appended after the file part.
OptionalParts(req) ==
    OptText("language", req.language)
    \o OptText("prompt", req.prompt)
    \o (IF IsSome(req.temperature)
        THEN <<TextPart("temperature", F32ToString(req.temperature[1]))>> ELSE <<>>)
    \o GranularityParts(req.timestamp_granularities)

CompleteForm(req, filePart) == FormBase(req) \o <<filePart>> \o OptionalParts(req)

AudioRequestOnWire(h, form) ==
    Post(h, AUDIO_TRANSCRIPTION_API_URL, [kind |-> "multipart", form |-> form])

\* !file_path.exists()
MissingFileInverted(p) == fs[p]

MissingFile(p) == ~fs[p]

\* audio_transcription up to its first suspension: the existence check of a
\* file path (returning FileNotFoundError) or, for a buffer, the whole form
\* and the send.  checked records what the file system held at the check.
AudioBegin(c, req) ==
    /\ handle.built
    /\ calls[c].pc = "idle"
    /\ IF req.source.kind = "Filepath"
       THEN IF MissingFile(req.source.path)
            THEN /\ calls' = [calls EXCEPT ![c] =
                        [pc |-> "done", kind |-> "audio", req |-> req,
                         checked |-> IF fs[req.source.path] THEN "exists" ELSE "missing",
                         resp |-> [kind |-> "none"],
                         result |-> [tag |-> "FileNotFoundError", val |-> req.source.path]]]
                 /\ sent' = sent
            ELSE /\ calls' = [calls EXCEPT ![c] =
                        [pc |-> "reading", kind |-> "audio", req |-> req,
                         checked |-> IF fs[req.source.path] THEN "exists" ELSE "missing"]]
                 /\ sent' = sent
       ELSE /\ calls' = [calls EXCEPT ![c] =
                        [pc |-> "awaiting", kind |-> "audio", req |-> req, checked |-> "n/a"]]
            /\ sent' = [sent EXCEPT ![c] =
                        Send(@, AudioRequestOnWire(handle,
                            CompleteForm(req, BytesPart(req.source.buffer, req.source.file_name))))]
    /\ UNCHANGED <<handle, token, newResult, fs>>

\* form.file("file", file_path).await?: the file is opened; IoError if that
\* fails, else the optional fields are appended and the request is sent.
AudioFileRead(c) ==
    /\ calls[c].pc = "reading"
    /\ IF fs[calls[c].req.source.path]
       THEN /\ calls' = [calls EXCEPT ![c] = [@ EXCEPT !.pc = "awaiting"]]
            /\ sent' = [sent EXCEPT ![c] =
                        Send(@, AudioRequestOnWire(handle,
                            CompleteForm(calls[c].req, FilePart(calls[c].req.source.path))))]
       ELSE /\ calls' = [calls EXCEPT ![c] =
                        [pc |-> "done", kind |-> "audio", req |-> @.req, checked |-> @.checked,
                         resp |-> [kind |-> "none"],
                         result |-> [tag |-> "IoError", val |-> @.req.source.path]]]
            /\ sent' = sent
    /\ UNCHANGED <<handle, token, newResult, fs>>

\* A response shared between the calls in flight: the result is decoded from
\* the response another finished call holds, when there is one.
AudioRespondShared(c, resp) ==
    /\ calls[c].pc = "awaiting"
    /\ calls[c].kind = "audio"
    /\ LET others == {d \in CallIds \ {c} : calls[d].pc = "done" /\ calls[d].kind = "audio"
                                             /\ calls[d].resp.kind # "none"}
       IN calls' = [calls EXCEPT ![c] =
                    [pc |-> "done", kind |-> "audio", req |-> @.req, checked |-> @.checked,
                     resp |-> resp,
                     result |-> IF others = {} THEN AudioResult(resp)
                                ELSE AudioResult(calls[CHOOSE d \in others : TRUE].resp)]]
    /\ UNCHANGED <<handle, token, newResult, fs, sent>>

\* The response (or the transport's failure) arrives: decode and return.
AudioRespond(c, resp) ==
    /\ calls[c].pc = "awaiting"
    /\ calls[c].kind = "audio"
    /\ calls' = [calls EXCEPT ![c] =
                    [pc |-> "done", kind |-> "audio", req |-> @.req, checked |-> @.checked,
                     resp |-> resp, result |-> AudioResult(resp)]]
    /\ UNCHANGED <<handle, token, newResult, fs, sent>>

\* The caller takes the result; the slot is free for the next call.
Return(c) ==
    /\ calls[c].pc = "done"
    /\ calls' = [calls EXCEPT ![c] = Idle]
    /\ sent' = [sent EXCEPT ![c] = <<>>]
    /\ UNCHANGED <<handle, token, newResult, fs>>

\* The environment creates or removes a file.
FsChange(p) ==
    /\ fs' = [fs EXCEPT ![p] = ~@]
    /\ UNCHANGED <<handle, token, newResult, calls, sent>>

(***************************************************************************)
(* chat_completition.rs: serde's Serialize of the request.  No field has   *)
(* skip_serializing_if: Option::None is written as null.                   *)
(***************************************************************************)
\* Serialize for Option<String>
SerOptStr(o) == IF IsSome(o) THEN JStr(o[1]) ELSE JNull

\* Serialize for Option<u64>
SerOptNum(o) == IF IsSome(o) THEN JNum(o[1]) ELSE JNull

\* Serialize for Vec<String>
SerStrList(l) == JArr([i \in 1..Len(l) |-> JStr(l[i])])

\* struct FunctionCall { name, arguments }
SerFunctionCall(f) == JObj([name |-> JStr(f.name), arguments |-> JStr(f.arguments)])

\* struct ToolCall { id, type, function }
SerToolCall(tc) ==
    JObj([id |-> JStr(tc.id), type |-> JStr(tc.type_), function |-> SerFunctionCall(tc.function)])

SerOptToolCalls(o) ==
    IF IsSome(o) THEN JArr([i \in 1..Len(o[1]) |-> SerToolCall(o[1][i])]) ELSE JNull

\* The variant's name as declared, without rename_all.
RoleTagVerbatim(variant) == variant

\* #[serde(rename_all = "snake_case")] on the variants of Message
RoleTag(variant) ==
    CASE variant = "System" -> "system"
      [] variant = "User" -> "user"
      [] variant = "Assistant" -> "assistant"
      [] variant = "Tool" -> "tool"

\* #[serde(tag = "role")] enum Message: the variant's fields plus the role tag.
SerMessage(m) ==
    CASE m.variant \in {"System", "User"} ->
            JObj([role |-> JStr(RoleTag(m.variant)), content |-> JStr(m.content),
                  name |-> SerOptStr(m.name)])
      [] m.variant = "Assistant" ->
            JObj([role |-> JStr(RoleTag(m.variant)), content |-> JStr(m.content),
                  name |-> SerOptStr(m.name), tool_calls |-> SerOptToolCalls(m.tool_calls)])
      [] m.variant = "Tool" ->
            JObj([role |-> JStr(RoleTag(m.variant)), content |-> JStr(m.content),
                  tool_call_id |-> JStr(m.tool_call_id)])

SerMessages(ms) == JArr([i \in 1..Len(ms) |-> SerMessage(ms[i])])

\* enum ResponseFormatType (snake_case) inside struct ResponseFormat { type }
SerOptResponseFormat(o) ==
    IF IsSome(o)
    THEN JObj([type |-> JStr(IF o[1].response_type = "JsonObject" THEN "json_object" ELSE "text")])
    ELSE JNull

\* struct ChatTool { type, function: FunctionDefinition { name, description, parameters } }
SerChatTool(tl) ==
    JObj([type |-> JStr(tl.type_),
          function |-> JObj([name |-> JStr(tl.function.name),
                             description |-> JStr(tl.function.description),
                             parameters |-> tl.function.parameters])])

SerOptTools(o) ==
    IF IsSome(o) THEN JArr([i \in 1..Len(o[1]) |-> SerChatTool(o[1][i])]) ELSE JNull

\* #[derive(Serialize)] struct ChatCompletionRequest: every field is written.
SerChatCompletionRequest(r) ==
    JObj([frequency_penalty |-> JNum(r.frequency_penalty),
          max_tokens |-> JNum(r.max_tokens),
          messages |-> SerMessages(r.messages),
          min_p |-> JNum(r.min_p),
          model |-> JStr(r.model),
          n |-> JNum(r.n),
          presence_penalty |-> JNum(r.presence_penalty),
          repetition_penalty |-> JNum(r.repetition_penalty),
          response_format |-> SerOptResponseFormat(r.response_format),
          seed |-> SerOptNum(r.seed),
          stop |-> IF IsSome(r.stop) THEN SerStrList(r.stop[1]) ELSE JNull,
          stream |-> JBool(r.stream),
          temperature |-> JNum(r.temperature),
          tool_choice |-> SerOptStr(r.tool_choice),
          tools |-> SerOptTools(r.tools),
          top_k |-> JNum(r.top_k),
          top_p |-> JNum(r.top_p),
          user |-> SerOptStr(r.user)])

(***************************************************************************)
(* chat_completition.rs: serde's Deserialize of the response.  An          *)
(* Option<T> field is None when its key is absent or null.                 *)
(***************************************************************************)
OptAbsent(o, k) == ~HasKey(o, k) \/ o[k].t = "null"

OptStrOk(o, k) == OptAbsent(o, k) \/ IsStr(o[k])

OptStrOf(o, k) == IF OptAbsent(o, k) THEN None ELSE Some(o[k].s)

ReqStr(o, k) == HasKey(o, k) /\ IsStr(o[k])

ReqNum(o, k) == HasKey(o, k) /\ o[k].t = "num"

FunctionCallOk(j) ==
    LET f == AsFields(j, <<"name", "arguments">>) IN
    f.ok /\ ReqStr(f.o, "name") /\ ReqStr(f.o, "arguments")

ToolCallOk(j) ==
    LET f == AsFields(j, <<"id", "type", "function">>) IN
    /\ f.ok
    /\ ReqStr(f.o, "id") /\ ReqStr(f.o, "type")
    /\ HasKey(f.o, "function") /\ FunctionCallOk(f.o.function)

DeFunctionCall(j) ==
    LET f == AsFields(j, <<"name", "arguments">>) IN
    [name |-> f.o.name.s, arguments |-> f.o.arguments.s]

DeToolCall(j) ==
    LET f == AsFields(j, <<"id", "type", "function">>) IN
    [id |-> f.o.id.s, type_ |-> f.o["type"].s, function |-> DeFunctionCall(f.o.function)]

OptToolCallsOk(o) ==
    \/ OptAbsent(o, "tool_calls")
    \/ /\ o.tool_calls.t = "arr"
       /\ \A i \in 1..Len(o.tool_calls.a) : ToolCallOk(o.tool_calls.a[i])

OptToolCallsOf(o) ==
    IF OptAbsent(o, "tool_calls") THEN None
    ELSE Some([i \in 1..Len(o.tool_calls.a) |-> DeToolCall(o.tool_calls.a[i])])

\* The variant a role tag names.
VariantOfRole(role) ==
    CASE role = "system" -> "System"
      [] role = "user" -> "User"
      [] role = "assistant" -> "Assistant"
      [] role = "tool" -> "Tool"
      [] OTHER -> "unknown"

\* Deserialize for Message: the role tag picks the variant, whose struct is
\* read from the other keys.
MessageOk(j) ==
    /\ j.t = "obj"
    /\ ReqStr(j.o, "role")
    /\ LET v == VariantOfRole(j.o.role.s) IN
       /\ v # "unknown"
       /\ ReqStr(j.o, "content")
       /\ v \in {"System", "User", "Assistant"} => OptStrOk(j.o, "name")
       /\ v = "Assistant" => OptToolCallsOk(j.o)
       /\ v = "Tool" => ReqStr(j.o, "tool_call_id")

DeMessage(j) ==
    LET v == VariantOfRole(j.o.role.s) IN
    CASE v \in {"System", "User"} ->
            [variant |-> v, content |-> j.o.content.s, name |-> OptStrOf(j.o, "name")]
      [] v = "Assistant" ->
            [variant |-> v, content |-> j.o.content.s, name |-> OptStrOf(j.o, "name"),
             tool_calls |-> OptToolCallsOf(j.o)]
      [] v = "Tool" ->
            [variant |-> v, content |-> j.o.content.s, tool_call_id |-> j.o.tool_call_id.s]

\* struct Choice { index: i32, message: Message, finish_reason: String }
ChoiceOk(j) ==
    LET f == AsFields(j, <<"index", "message", "finish_reason">>) IN
    /\ f.ok
    /\ ReqNum(f.o, "index")
    /\ HasKey(f.o, "message") /\ MessageOk(f.o.message)
    /\ ReqStr(f.o, "finish_reason")

DeChoice(j) ==
    LET f == AsFields(j, <<"index", "message", "finish_reason">>) IN
    [index |-> f.o.index.n, message |-> DeMessage(f.o.message),
     finish_reason |-> f.o.finish_reason.s]

\* struct Usage { prompt_tokens, total_tokens, completion_tokens }
UsageOk(j) ==
    LET f == AsFields(j, <<"prompt_tokens", "total_tokens", "completion_tokens">>) IN
    f.ok /\ ReqNum(f.o, "prompt_tokens") /\ ReqNum(f.o, "total_tokens")
         /\ ReqNum(f.o, "completion_tokens")

\* struct ChatCompletionResponse { id, object, created, model, choices, usage }
ChatCompletionResponseOk(j) ==
    LET f == AsFields(j, <<"id", "object", "created", "model", "choices", "usage">>) IN
    /\ j.t # "notjson"
    /\ f.ok
    /\ OptStrOk(f.o, "id") /\ OptStrOk(f.o, "object") /\ OptStrOk(f.o, "model")
    /\ OptAbsent(f.o, "created") \/ f.o.created.t = "num"
    /\ HasKey(f.o, "choices") /\ f.o.choices.t = "arr"
    /\ \A i \in 1..Len(f.o.choices.a) : ChoiceOk(f.o.choices.a[i])
    /\ OptAbsent(f.o, "usage") \/ UsageOk(f.o.usage)

DeChatCompletionResponse(j) ==
    LET f == AsFields(j, <<"id", "object", "created", "model", "choices", "usage">>) IN
    [id |-> OptStrOf(f.o, "id"), object |-> OptStrOf(f.o, "object"),
     created |-> IF OptAbsent(f.o, "created") THEN None ELSE Some(f.o.created.n),
     model |-> OptStrOf(f.o, "model"),
     usage |-> IF OptAbsent(f.o, "usage") THEN None ELSE Some(f.o.usage),
     choices |-> [i \in 1..Len(f.o.choices.a) |-> DeChoice(f.o.choices.a[i])]]

\* send().await?.json().await?; Ok(response).  The HTTP status is not looked
\* at: there is no error_for_status.
ChatResult(resp) ==
    IF resp.kind = "error" THEN [tag |-> "ReqwestError", val |-> "send"]
    ELSE IF ChatCompletionResponseOk(resp.body)
         THEN [tag |-> "Ok", val |-> DeChatCompletionResponse(resp.body)]
         ELSE [tag |-> "ReqwestError", val |-> "decode"]

ChatRequestOnWire(h, req) ==
    Post(h, CHAT_COMPLETIONS_API_URL, [kind |-> "json", json |-> SerChatCompletionRequest(req)])

\* chat_completition up to its suspension at send: the body is serialized
\* and the request goes out.
ChatSend(c, req) ==
    /\ handle.built
    /\ calls[c].pc = "idle"
    /\ calls' = [calls EXCEPT ![c] = [pc |-> "awaiting", kind |-> "chat", req |-> req]]
    /\ sent' = [sent EXCEPT ![c] = Send(@, ChatRequestOnWire(handle, req))]
    /\ UNCHANGED <<handle, token, newResult, fs>>

\* The response (or the transport's failure) arrives: decode and return.
ChatRespond(c, resp) ==
    /\ calls[c].pc = "awaiting"
    /\ calls[c].kind = "chat"
    /\ calls' = [calls EXCEPT ![c] =
                    [pc |-> "done", kind |-> "chat", req |-> @.req,
                     resp |-> resp, result |-> ChatResult(resp)]]
    /\ UNCHANGED <<handle, token, newResult, fs, sent>>

(***************************************************************************)
(* The inputs: tokens, files, requests and responses.                      *)
(***************************************************************************)
\* Tab, line feed, 'A' and DEL.
TokenBytes == {9, 10, 65, 127}

Tokens == SeqsUpTo(TokenBytes, MaxTokenLen)

SomeTokens == {<<65>>, <<10>>}

Paths == {"audio/a.wav", "audio/b.mp3"}

OptSeqs(S, n) == {None} \cup {Some(l) : l \in SeqsUpTo(S, n)}

\* #[builder(default = ..)] of AudioTranscriptionRequest
DefaultAudioModel == "openai/whisper-large-v3-turbo"
DefaultAudioResponseFormat == "json"

Sources ==
    {[kind |-> "Filepath", path |-> p] : p \in Paths}
    \cup {[kind |-> "Bytes", buffer |-> <<82, 73>>, file_name |-> "clip.ogg"]}

AudioRequest(source, language, prompt, temperature, granularities) ==
    [language |-> language, model |-> DefaultAudioModel, prompt |-> prompt,
     response_format |-> DefaultAudioResponseFormat, source |-> source,
     temperature |-> temperature, timestamp_granularities |-> granularities]

AllAudioRequests ==
    {AudioRequest(src, l, p, t, g) :
        src \in Sources, l \in {None, Some("en")}, p \in {None, Some("names")},
        t \in {None, Some(0), Some(5)}, g \in OptSeqs({"word", "segment"}, MaxGran)}

SomeAudioRequests ==
    {AudioRequest([kind |-> "Filepath", path |-> "audio/a.wav"], None, None, None, None),
     AudioRequest([kind |-> "Filepath", path |-> "audio/b.mp3"], Some("en"), None, None,
                  Some(<<"word", "segment">>)),
     AudioRequest([kind |-> "Bytes", buffer |-> <<82, 73>>, file_name |-> "clip.ogg"],
                  None, Some("names"), Some(5), None)}

TransportError == [kind |-> "error"]

Http(status, body) == [kind |-> "http", status |-> status, body |-> body]

\* A JSON object from the keys that are given (Some) among text and detail.
TextDetail(text, detail) ==
    JObj([k \in (IF IsSome(text) THEN {"text"} ELSE {})
                \cup (IF IsSome(detail) THEN {"detail"} ELSE {}) |->
            IF k = "text" THEN text[1] ELSE detail[1]])

FieldError(loc, msg, type) ==
    JObj([loc |-> SerStrList(loc), msg |-> JStr(msg), type |-> JStr(type)])

Locs == {<<>>, <<"body">>, <<"body", "language">>}

Entries ==
    {FieldError(loc, msg, "value_error") : loc \in Locs, msg \in {"invalid", "required"}}
    \cup {JObj([loc |-> SerStrList(<<"body">>), msg |-> JStr("invalid")]),
          JObj([loc |-> JStr("body"), msg |-> JStr("invalid"), type |-> JStr("value_error")]),
          JArr(<<SerStrList(<<"query">>), JStr("missing"), JStr("value_error")>>)}

TextValues == {None, Some(JStr("hello")), Some(JNum(1)), Some(JNull)}

DetailValues ==
    {None, Some(JStr("bad request")), Some(JNum(7))}
    \cup {Some(JArr(l)) : l \in SeqsUpTo(Entries, MaxDetail)}

AudioBodies ==
    {TextDetail(t, d) : t \in TextValues, d \in DetailValues}
    \cup {JArr(<<JStr("hello")>>), JArr(<<JStr("hello"), JStr("again")>>), JArr(<<>>),
          JStr("hello"), NotJson}

AllAudioResponses ==
    {TransportError} \cup {Http(st, b) : st \in {200, 422}, b \in AudioBodies}

SomeAudioResponses ==
    {TransportError,
     Http(200, TextDetail(Some(JStr("hello")), None)),
     Http(422, TextDetail(None, Some(JStr("bad request")))),
     Http(422, TextDetail(None, Some(JArr(<<FieldError(<<"body", "language">>, "invalid",
                                                      "value_error")>>)))),
     Http(200, NotJson)}

AToolCall ==
    [id |-> "call_1", type_ |-> "function",
     function |-> [name |-> "lookup", arguments |-> "{}"]]

Messages ==
    {[variant |-> v, content |-> "hi", name |-> n] :
        v \in {"System", "User"}, n \in {None, Some("al")}}
    \cup {[variant |-> "Assistant", content |-> "ok", name |-> None, tool_calls |-> None],
          [variant |-> "Assistant", content |-> "ok", name |-> Some("bot"),
           tool_calls |-> Some(<<AToolCall>>)],
          [variant |-> "Tool", content |-> "42", tool_call_id |-> "call_1"]}

SystemAndUser ==
    <<[variant |-> "System", content |-> "hi", name |-> None],
      [variant |-> "User", content |-> "hi", name |-> Some("al")]>>

ATool ==
    [type_ |-> "function",
     function |-> [name |-> "lookup", description |-> "looks up", parameters |-> JObj(<<>>)]]

\* #[builder(default = ..)] of ChatCompletionRequest; numbers are given in
\* units (0.0 is 0, 1.0 is 1).
ChatRequest(messages, response_format, seed, stop, tool_choice, tools, user) ==
    [frequency_penalty |-> 0, max_tokens |-> 100000, messages |-> messages, min_p |-> 0,
     model |-> "deepseek-ai/DeepSeek-V3", n |-> 1, presence_penalty |-> 0,
     repetition_penalty |-> 1, response_format |-> response_format, seed |-> seed,
     stop |-> stop, stream |-> FALSE, temperature |-> 1, tool_choice |-> tool_choice,
     tools |-> tools, top_k |-> 0, top_p |-> 1, user |-> user]

AllChatRequests ==
    {ChatRequest(SystemAndUser, rf, sd, st, tc, tl, u) :
        rf \in {None, Some([response_type |-> "JsonObject"])}, sd \in {None, Some(7)},
        st \in {None, Some(<<"END">>)}, tc \in {None, Some("auto")},
        tl \in {None, Some(<<ATool>>)}, u \in {None, Some("u1")}}
    \cup {ChatRequest(ms, None, None, None, None, None, None) :
            ms \in SeqsUpTo(Messages, MaxMsgs)}

SomeChatRequests ==
    {ChatRequest(SystemAndUser, None, None, None, None, None, None),
     ChatRequest(SystemAndUser, None, Some(7), Some(<<"END">>), None, None, Some("u1"))}

AChoice ==
    JObj([index |-> JNum(0), finish_reason |-> JStr("stop"),
          message |-> JObj([role |-> JStr("assistant"), content |-> JStr("ok")])])

\* The server answers with the request's messages, one choice each.
EchoOf(request) ==
    Http(200, JObj([choices |->
        JArr([i \in 1..Len(request.body.json.o.messages.a) |->
                JObj([index |-> JNum(i - 1), finish_reason |-> JStr("stop"),
                      message |-> request.body.json.o.messages.a[i]])])]))

FixedChatResponses ==
    {TransportError,
     Http(200, JObj([id |-> JStr("r1"), choices |-> JArr(<<AChoice>>)])),
     Http(500, JObj([error |-> JStr("overloaded"), choices |-> JArr(<<>>)])),
     Http(429, JObj([detail |-> JStr("rate limited")])),
     Http(200, NotJson)}

ChatResponses(c) ==
    FixedChatResponses \cup (IF Len(sent[c]) > 0 /\ sent[c][1].body.kind = "json"
                             THEN {EchoOf(sent[c][1])} ELSE {})

(***************************************************************************)
(* The specifications.                                                     *)
(***************************************************************************)
Init ==
    /\ handle = NoHandle
    /\ token = <<>>
    /\ newResult = "none"
    /\ fs = [p \in Paths |-> p = "audio/a.wav"]
    /\ calls = [c \in CallIds |-> Idle]
    /\ sent = [c \in CallIds |-> <<>>]

\* Any number of calls in flight on one handle.
Next ==
    \/ \E t \in SomeTokens, ok \in BOOLEAN : New(t, ok)
    \/ \E c \in CallIds, req \in SomeAudioRequests : AudioBegin(c, req)
    \/ \E c \in CallIds : AudioFileRead(c)
    \/ \E c \in CallIds, resp \in SomeAudioResponses : AudioRespond(c, resp)
    \/ \E c \in CallIds, req \in SomeChatRequests : ChatSend(c, req)
    \/ \E c \in CallIds : \E resp \in ChatResponses(c) : ChatRespond(c, resp)
    \/ \E c \in CallIds : Return(c)
    \/ \E p \in Paths : FsChange(p)

Spec == Init /\ [][Next]_vars

\* One caller, every token.
NextAuth ==
    \/ \E t \in Tokens, ok \in BOOLEAN : New(t, ok)
    \/ \E req \in SomeAudioRequests : AudioBegin(1, req)
    \/ AudioFileRead(1)
    \/ \E resp \in SomeAudioResponses : AudioRespond(1, resp)
    \/ \E req \in SomeChatRequests : ChatSend(1, req)
    \/ \E resp \in FixedChatResponses : ChatRespond(1, resp)
    \/ Return(1)
    \/ \E p \in Paths : FsChange(p)

SpecAuth == Init /\ [][NextAuth]_vars

\* One caller, every audio request.
NextAudioForm ==
    \/ New(<<65>>, TRUE)
    \/ \E req \in AllAudioRequests : AudioBegin(1, req)
    \/ AudioFileRead(1)
    \/ \E resp \in SomeAudioResponses : AudioRespond(1, resp)
    \/ Return(1)
    \/ \E p \in Paths : FsChange(p)

SpecAudioForm == Init /\ [][NextAudioForm]_vars

\* One caller, every audio response.
NextAudioDecode ==
    \/ New(<<65>>, TRUE)
    \/ \E req \in SomeAudioRequests : AudioBegin(1, req)
    \/ AudioFileRead(1)
    \/ \E resp \in AllAudioResponses : AudioRespond(1, resp)
    \/ Return(1)

SpecAudioDecode == Init /\ [][NextAudioDecode]_vars

\* One caller, every chat request.
NextChat ==
    \/ New(<<65>>, TRUE)
    \/ \E req \in AllChatRequests : ChatSend(1, req)
    \/ \E resp \in ChatResponses(1) : ChatRespond(1, resp)
    \/ Return(1)

SpecChat == Init /\ [][NextChat]_vars

(***************************************************************************)
(* The properties.                                                         *)
(***************************************************************************)
Started(c) == calls[c].pc # "idle"

Done(c) == calls[c].pc = "done"

AudioCall(c) == Started(c) /\ calls[c].kind = "audio"

ChatCall(c) == Started(c) /\ calls[c].kind = "chat"

\* The call ended on a response of the server (not before the send, and not
\* on a failure of the transport).
Answered(c) == Done(c) /\ calls[c].resp.kind = "http"

\* C1: an audio_transcription call whose source is a file path that did not
\* exist when the call checked it has failed with FileNotFoundError carrying
\* that path, and has sent no request.
C1_MissingFileFailsBeforeSend ==
    \A c \in CallIds :
        (AudioCall(c) /\ calls[c].req.source.kind = "Filepath" /\ calls[c].checked = "missing")
        => /\ Done(c)
           /\ calls[c].result.tag = "FileNotFoundError"
           /\ calls[c].result.val = calls[c].req.source.path
           /\ sent[c] = <<>>

\* A call on a missing path, with every optional field set, has ended.
C1_Witness ==
    \E c \in CallIds :
        /\ AudioCall(c) /\ calls[c].checked = "missing"
        /\ calls[c].req.source.path = "audio/b.mp3"
        /\ IsSome(calls[c].req.language) /\ IsSome(calls[c].req.prompt)
        /\ IsSome(calls[c].req.temperature) /\ IsSome(calls[c].req.timestamp_granularities)
        /\ calls[c].result.tag = "FileNotFoundError"

OptionalRequestKeys == {"response_format", "seed", "stop", "tool_choice", "tools", "user"}

\* C2: in the JSON body chat_completition sends, every optional field the
\* caller did not set (response_format, seed, stop, tool_choice, tools, user,
\* and a message's name and tool_calls) is absent.
C2_UnsetOptionalsAbsent ==
    \A c \in CallIds :
        (ChatCall(c) /\ Len(sent[c]) > 0)
        => LET body == sent[c][1].body.json.o
               req == calls[c].req
           IN /\ \A k \in OptionalRequestKeys : ~IsSome(req[k]) => ~HasKey(body, k)
              /\ \A i \in 1..Len(req.messages) :
                    /\ (req.messages[i].variant # "Tool" /\ ~IsSome(req.messages[i].name))
                       => ~HasKey(body.messages.a[i].o, "name")
                    /\ (req.messages[i].variant = "Assistant"
                        /\ ~IsSome(req.messages[i].tool_calls))
                       => ~HasKey(body.messages.a[i].o, "tool_calls")

\* The three shapes of an audio transcription response body, as the wire
\* protocol gives them.
HasTextString(b) == b.t = "obj" /\ HasKey(b.o, "text") /\ b.o.text.t = "str"

HasDetailString(b) == b.t = "obj" /\ HasKey(b.o, "detail") /\ b.o.detail.t = "str"

IsFieldError(e) ==
    /\ e.t = "obj"
    /\ HasKey(e.o, "loc") /\ e.o.loc.t = "arr"
    /\ \A i \in 1..Len(e.o.loc.a) : e.o.loc.a[i].t = "str"
    /\ HasKey(e.o, "msg") /\ e.o.msg.t = "str"
    /\ HasKey(e.o, "type") /\ e.o["type"].t = "str"

HasDetailList(b) ==
    /\ b.t = "obj" /\ HasKey(b.o, "detail") /\ b.o.detail.t = "arr"
    /\ \A i \in 1..Len(b.o.detail.a) : IsFieldError(b.o.detail.a[i])

\* C3: the JSON body of an audio transcription response is decoded by the
\* first shape that matches: a string text gives success with that text; else
\* a string detail gives ErrorResponse(detail); else a list of field errors
\* gives ErrorResponse; a JSON body of none of the three shapes gives
\* ReqwestError.
C3_FirstShapeWins ==
    \A c \in CallIds :
        (AudioCall(c) /\ Answered(c) /\ calls[c].resp.body.t # "notjson")
        => LET b == calls[c].resp.body
               r == calls[c].result
           IN IF HasTextString(b) THEN r.tag = "Ok" /\ r.val = b.o.text.s
              ELSE IF HasDetailString(b)
                   THEN r.tag = "ErrorResponse" /\ r.val = b.o.detail.s
                   ELSE IF HasDetailList(b) THEN r.tag = "ErrorResponse"
                        ELSE r.tag = "ReqwestError"

\* The message the wire protocol's detailed error stands for, read off the
\* JSON entries from the back.
RECURSIVE DottedLoc(_)
DottedLoc(loc) ==
    IF Len(loc) = 0 THEN ""
    ELSE IF Len(loc) = 1 THEN loc[1].s
    ELSE DottedLoc(SubSeq(loc, 1, Len(loc) - 1)) \o "." \o loc[Len(loc)].s

RECURSIVE DetailMessage(_)
DetailMessage(entries) ==
    IF Len(entries) = 0 THEN ""
    ELSE LET last == entries[Len(entries)].o
             one == DottedLoc(last.loc.a) \o ": " \o last.msg.s
         IN IF Len(entries) = 1 THEN one
            ELSE DetailMessage(SubSeq(entries, 1, Len(entries) - 1)) \o ", " \o one

IsDetailedError(b) == ~HasTextString(b) /\ ~HasDetailString(b) /\ HasDetailList(b)

\* C4: when the response body is a detailed error, the failure is
\* ErrorResponse with each entry rendered as its loc joined by "." then ": "
\* then its msg, the entries joined by ", " in list order; the type tag is
\* not in the message, and one entry is rendered with no separator.
C4_DetailedErrorMessage ==
    \A c \in CallIds :
        (AudioCall(c) /\ Answered(c) /\ IsDetailedError(calls[c].resp.body))
        => /\ calls[c].result.tag = "ErrorResponse"
           /\ calls[c].result.val = DetailMessage(calls[c].resp.body.o.detail.a)
           /\ calls[c].resp.body.o.detail.a
                = <<FieldError(<<"body", "language">>, "invalid", "value_error")>>
              => calls[c].result.val = "body.language: invalid"

\* A two-entry detailed error has been rendered.
C4_Witness ==
    \E c \in CallIds :
        /\ AudioCall(c) /\ Answered(c) /\ IsDetailedError(calls[c].resp.body)
        /\ Len(calls[c].resp.body.o.detail.a) = 2
        /\ calls[c].result.val = "body.language: invalid, body: required"

\* C5: a chat_completition call answered with a non-2xx status, or with a
\* body that is no ChatCompletionResponse, ends in ReqwestError, never in
\* success.
C5_NonSuccessStatusIsError ==
    \A c \in CallIds :
        (ChatCall(c) /\ Answered(c)
         /\ (calls[c].resp.status \notin 200..299
             \/ ~ChatCompletionResponseOk(calls[c].resp.body)))
        => calls[c].result.tag = "ReqwestError"

LocalFailures == {"FileNotFoundError", "IoError"}

C6_RequestCount ==
    \A c \in CallIds :
        /\ Len(sent[c]) <= 1
        /\ calls[c].pc \in {"idle", "reading"} => Len(sent[c]) = 0
        /\ calls[c].pc = "awaiting" => Len(sent[c]) = 1
        /\ Done(c) => Len(sent[c]) = IF calls[c].result.tag \in LocalFailures THEN 0 ELSE 1

C6_Terminal ==
    \A c \in CallIds :
        Done(c) => \/ calls'[c] = calls[c] /\ sent'[c] = sent[c]
                   \/ calls'[c] = Idle

\* C6: a call has issued at most one HTTP request, and exactly one once it
\* has reached the send step; a call that has ended keeps its one result and
\* sends nothing more until the caller takes it.
C6_OneRequestPerCall == []C6_RequestCount /\ [][C6_Terminal]_vars

\* A call has ended on a failure after its one request.
C6_Witness ==
    \E c \in CallIds :
        /\ Done(c) /\ calls[c].result.tag = "ReqwestError" /\ Len(sent[c]) = 1
        /\ \E d \in CallIds : d # c /\ Done(d) /\ calls[d].result.tag = "ErrorResponse"

PartsNamed(form, name) == SelectSeq(form, LAMBDA p : p.name = name)

FormNames == {"model", "response_format", "file", "language", "prompt", "temperature",
              "timestamp_granularities[]"}

\* The one text field of that name and value, or none.
OneTextOrNone(form, name, o) ==
    IF IsSome(o) THEN PartsNamed(form, name) = <<[name |-> name, kind |-> "text", value |-> o[1]]>>
    ELSE PartsNamed(form, name) = <<>>

DecimalOf(t) == IF IsSome(t) THEN Some(IF t[1] = 0 THEN "0" ELSE "0.5") ELSE None

\* C7: the multipart body audio_transcription sends holds the text fields
\* model and response_format and one file part; language, prompt and
\* temperature only when the request sets them; and one
\* timestamp_granularities[] field per element of the list, in its order
\* (none for an unset list).
C7_MultipartFields ==
    \A c \in CallIds :
        (AudioCall(c) /\ Len(sent[c]) > 0)
        => LET form == sent[c][1].body.form
               req == calls[c].req
               gran == PartsNamed(form, "timestamp_granularities[]")
               want == IF IsSome(req.timestamp_granularities)
                       THEN req.timestamp_granularities[1] ELSE <<>>
           IN /\ \A i \in 1..Len(form) : form[i].name \in FormNames
              /\ OneTextOrNone(form, "model", Some(req.model))
              /\ OneTextOrNone(form, "response_format", Some(req.response_format))
              /\ Len(PartsNamed(form, "file")) = 1
              /\ PartsNamed(form, "file")[1].kind = "file"
              /\ OneTextOrNone(form, "language", req.language)
              /\ OneTextOrNone(form, "prompt", req.prompt)
              /\ OneTextOrNone(form, "temperature", DecimalOf(req.temperature))
              /\ Len(gran) = Len(want)
              /\ \A i \in 1..Len(gran) : gran[i].kind = "text" /\ gran[i].value = want[i]

\* A request with the granularities word, segment has been sent.
C7_Witness ==
    \E c \in CallIds :
        /\ AudioCall(c) /\ Len(sent[c]) = 1
        /\ calls[c].req.timestamp_granularities = Some(<<"word", "segment">>)
        /\ calls[c].req.source.kind = "Filepath"
        /\ LET gran == PartsNamed(sent[c][1].body.form, "timestamp_granularities[]")
           IN Len(gran) = 2 /\ gran[1].value = "word" /\ gran[2].value = "segment"

\* No control character but the tab, and no DEL.
LegalToken(t) == \A i \in 1..Len(t) : t[i] \notin ((0..8) \cup (10..31) \cup {127})

AllCarryBearer ==
    \A c \in CallIds : \A i \in 1..Len(sent[c]) :
        sent[c][i].headers.Authorization = <<66, 101, 97, 114, 101, 114, 32>> \o token

\* C8 as stated: for a token with no character illegal in a header value,
\* new succeeds, and every request issued through the handle carries
\* Authorization: Bearer <token>.
C8_LegalTokenAlwaysSucceeds ==
    /\ (newResult # "none" /\ LegalToken(token)) => newResult = "Ok"
    /\ AllCarryBearer

\* C8: for a token with no character illegal in a header value, new never
\* fails with InvalidHeaderValue: it succeeds unless the HTTP client itself
\* cannot be built (ReqwestError); and every request issued through a built
\* handle, after any sequence of calls, carries Authorization: Bearer <token>
\* with the token given at construction.
C8_BearerOnEveryRequest ==
    /\ (newResult # "none" /\ LegalToken(token)) => newResult \in {"Ok", "ReqwestError"}
    /\ (newResult # "none" /\ ~LegalToken(token)) => newResult = "InvalidHeaderValue"
    /\ handle.built <=> newResult = "Ok"
    /\ handle.built => handle.headers.Authorization = <<66, 101, 97, 114, 101, 114, 32>> \o token
    /\ AllCarryBearer

\* A request has gone out under a token holding a tab.
C8_Witness ==
    /\ token = <<65, 9>>
    /\ newResult = "Ok"
    /\ Len(sent[1]) = 1
    /\ sent[1][1].headers.Authorization = <<66, 101, 97, 114, 101, 114, 32, 65, 9>>

LowerCaseRole(variant) ==
    IF variant = "System" THEN "system"
    ELSE IF variant = "User" THEN "user"
    ELSE IF variant = "Assistant" THEN "assistant" ELSE "tool"

IsEcho(c) == Answered(c) /\ calls[c].resp = EchoOf(sent[c][1])

\* C9: the messages of a request, serialized to JSON and decoded again as
\* Message values, come back with the same role, content and optional name,
\* in the same order; the role written is that of the variant used.
C9_MessageRoundTrip ==
    \A c \in CallIds :
        (ChatCall(c) /\ Len(sent[c]) > 0)
        => LET ms == calls[c].req.messages
               js == sent[c][1].body.json.o.messages.a
           IN /\ Len(js) = Len(ms)
              /\ \A i \in 1..Len(ms) :
                    /\ js[i].o.role = JStr(LowerCaseRole(ms[i].variant))
                    /\ js[i].o.content = JStr(ms[i].content)
              /\ IsEcho(c)
                 => /\ calls[c].result.tag = "Ok"
                    /\ Len(calls[c].result.val.choices) = Len(ms)
                    /\ \A i \in 1..Len(ms) : calls[c].result.val.choices[i].message = ms[i]

\* One system and one user message have made the round trip.
C9_Witness ==
    \E c \in CallIds :
        /\ ChatCall(c) /\ Done(c) /\ calls[c].req.messages = SystemAndUser
        /\ IsEcho(c)
        /\ calls[c].result.tag = "Ok"
        /\ calls[c].result.val.choices[2].message.name = Some("al")

C10_OwnExchangeOnly ==
    \A c, d \in CallIds :
        (Done(c) /\ Done(d) /\ calls[c].kind = calls[d].kind
         /\ calls[c].req = calls[d].req /\ calls[c].resp = calls[d].resp
         /\ calls[c].resp.kind # "none")
        => calls[c].result = calls[d].result

C10_HandleKept == handle.built => handle' = handle

\* C10: with any number of calls in flight on one handle, no step of any
\* call changes the handle (its token header and user agent), and two calls
\* with the same request and the same response have the same result, whatever
\* the other call did.
C10_ConcurrentCallsIndependent == [][C10_HandleKept]_vars /\ []C10_OwnExchangeOnly

\* Two calls are in flight at once, one of each operation.
C10_Witness ==
    /\ calls[1].pc = "awaiting" /\ calls[1].kind = "chat"
    /\ calls[2].pc = "awaiting" /\ calls[2].kind = "audio"

====
